---- MODULE Spec2Model ----
(***************************************************************************)
(* Model of examples/crewai/crewai_sentinel.py: the request_secret wrapper *)
(* around SentinelClient.request_secret and the secure_action task body.   *)
(*                                                                         *)
(* Python strings that the code concatenates, slices or formats are        *)
(* sequences of one-character strings, so that slicing (secret[:4]) and    *)
(* f-string formatting are computed, not assumed.  Strings that are only   *)
(* compared (statuses, exception types, task_id, summary) are TLA+ strings.*)
(***************************************************************************)
EXTENDS Naturals, Sequences, FiniteSets

VARIABLES
    caller,         \* which function was invoked last: "none", "request_secret", "secure_action"
    resource_name,  \* the resource_name argument of the last request_secret call
    outbound,       \* the calls made to sentinel.request_secret during the last invocation
    response,       \* what the external client answered to the last invocation
    rs_outcome,     \* how the last request_secret call ended (return / raise)
    sa_outcome,     \* how the last secure_action call ended (NoOutcome for a direct call)
    prev_outcome    \* how the request_secret call before the last one ended

vars == <<caller, resource_name, outbound, response, rs_outcome, sa_outcome, prev_outcome>>

----------------------------------------------------------------------------
(* Bounds of the input space *)

\* Longest secret value the external client hands out in the model.
MaxSecretLen == 8

----------------------------------------------------------------------------
(* String literals of the source *)

\* line 31: "Secret request pending approval"
PendingMessage ==
    <<"S", "e", "c", "r", "e", "t", " ", "r", "e", "q", "u", "e", "s", "t", " ",
      "p", "e", "n", "d", "i", "n", "g", " ", "a", "p", "p", "r", "o", "v", "a", "l">>

\* line 33: the literal part of f"Access denied: {result.reason}"
DeniedPrefix ==
    <<"A", "c", "c", "e", "s", "s", " ", "d", "e", "n", "i", "e", "d", ":", " ">>

\* line 37: the literal head of f"Secure action executed with secret {secret[:4]}***"
ActionPrefix ==
    <<"S", "e", "c", "u", "r", "e", " ", "a", "c", "t", "i", "o", "n", " ",
      "e", "x", "e", "c", "u", "t", "e", "d", " ", "w", "i", "t", "h", " ",
      "s", "e", "c", "r", "e", "t", " ">>

\* line 37: the literal tail "***"
MaskMarker == <<"*", "*", "*">>

\* line 37: the slice bound of secret[:4]
MaskKeep == 4

\* line 24: the literal part of f"CrewAI agent needs {resource_name}"
DescriptionPrefix ==
    <<"C", "r", "e", "w", "A", "I", " ", "a", "g", "e", "n", "t", " ",
      "n", "e", "e", "d", "s", " ">>

\* line 36: the resource secure_action asks for, "example_api_key"
ExampleResource ==
    <<"e", "x", "a", "m", "p", "l", "e", "_", "a", "p", "i", "_", "k", "e", "y">>

\* Python's str(None), which an f-string substitutes for a None field
NoneText == <<"N", "o", "n", "e">>

----------------------------------------------------------------------------
(* Python string operations *)

\* s[:n] for n >= 0: the first n characters, or all of s when it is shorter
Slice(s, n) == SubSeq(s, 1, IF Len(s) < n THEN Len(s) ELSE n)

\* whether s occurs in t as a contiguous run of characters (Python: s in t)
Contains(t, s) ==
    \E i \in 0..Len(t) : i + Len(s) <= Len(t) /\ SubSeq(t, i + 1, i + Len(s)) = s

----------------------------------------------------------------------------
(* The external client's answers (the environment) *)

\* Characters secret values are drawn from, "abcd1234" repeated
SecretChars == <<"a", "b", "c", "d", "1", "2", "3", "4">>

SecretOfLen(n) == [i \in 1..n |-> SecretChars[((i - 1) % Len(SecretChars)) + 1]]

SecretValues == {SecretOfLen(n) : n \in 0..MaxSecretLen}

\* result.secret: an object with a string .value, or None
Secrets ==
    {[present |-> TRUE, value |-> v] : v \in SecretValues}
        \cup {[present |-> FALSE, value |-> <<>>]}

ReasonTexts ==
    {<<>>,
     <<"p", "o", "l", "i", "c", "y", " ", "v", "i", "o", "l", "a", "t", "i", "o", "n">>}

\* result.reason: a string, None, or no such attribute on the result object
Reasons ==
    {[tag |-> "str", value |-> v] : v \in ReasonTexts}
        \cup {[tag |-> "none", value |-> <<>>], [tag |-> "missing", value |-> <<>>]}

\* statuses the service may answer; "EXPIRED" stands for a status the code does not name
Statuses == {"APPROVED", "PENDING", "DENIED", "EXPIRED"}

NoFault == [type |-> "", message |-> <<>>]

\* exceptions sentinel.request_secret itself may raise
Faults ==
    {[type |-> "ConnectionError",
      message |-> <<"r", "e", "f", "u", "s", "e", "d">>],
     [type |-> "ValueError",
      message |-> <<"m", "a", "l", "f", "o", "r", "m", "e", "d">>]}

\* A result object: every field is free, whatever the status, so that a result may
\* lack its secret or its reason under any status (APPROVED included)
Results ==
    [kind : {"result"}, status : Statuses, secret : Secrets,
     reason : Reasons, fault : {NoFault}]

FaultResponses ==
    [kind : {"fault"}, status : {""}, secret : {[present |-> FALSE, value |-> <<>>]},
     reason : {[tag |-> "missing", value |-> <<>>]}, fault : Faults]

Responses == Results \cup FaultResponses

NoResponse ==
    [kind |-> "none", status |-> "", secret |-> [present |-> FALSE, value |-> <<>>],
     reason |-> [tag |-> "missing", value |-> <<>>], fault |-> NoFault]

\* resource names a direct caller passes to request_secret
ResourceNames ==
    {ExampleResource, <<"d", "b">>}

----------------------------------------------------------------------------
(* Outcomes of a Python call *)

NoOutcome == [kind |-> "none", exc |-> "", text |-> <<>>]

Return(v) == [kind |-> "return", exc |-> "", text |-> v]

Raise(type, message) == [kind |-> "raise", exc |-> type, text |-> message]

\* f"{x}" for a field that holds a string or None
Format(field) == IF field.tag = "none" THEN NoneText ELSE field.value

----------------------------------------------------------------------------
(* request_secret, lines 18-33 *)

\* the description built without the resource name
ClientRequestFixedDescription(name) ==
    [resource_id |-> name,
     intent |-> [task_id |-> "crewai-task",
                 summary |-> "CrewAI agent execution",
                 description |-> DescriptionPrefix]]

\* lines 19-26: the keyword arguments of the one sentinel.request_secret call
ClientRequest(name) ==
    [resource_id |-> name,
     intent |-> [task_id |-> "crewai-task",
                 summary |-> "CrewAI agent execution",
                 description |-> DescriptionPrefix \o name]]

\* a retry: a PENDING answer is followed by a second call
ClientCallsRetryPending(name, resp) ==
    IF resp.kind = "result" /\ resp.status = "PENDING"
    THEN <<ClientRequest(name), ClientRequest(name)>>
    ELSE <<ClientRequest(name)>>

\* lines 19-33: the client calls one invocation makes; the call at line 19 is the
\* only one, whatever it answers (no loop, no handler around it)
ClientCalls(name, resp) == <<ClientRequest(name)>>

\* the client's exception swallowed and reported as a denial
OnClientFaultAsDenied(resp) == Raise("RuntimeError", DeniedPrefix \o resp.fault.message)

\* lines 19-26: the client call raised; no try/except, the exception leaves request_secret
OnClientFault(resp) == Raise(resp.fault.type, resp.fault.message)

\* the secret masked before it is handed back
OnApprovedTruncated(resp) ==
    IF resp.secret.present
    THEN Return(Slice(resp.secret.value, MaskKeep))
    ELSE Raise("AttributeError", <<"v", "a", "l", "u", "e">>)

\* lines 28-29: return result.secret.value (None has no attribute value; the text
\* of an AttributeError is given as the name of the attribute that was read)
OnApproved(resp) ==
    IF resp.secret.present
    THEN Return(resp.secret.value)
    ELSE Raise("AttributeError", <<"v", "a", "l", "u", "e">>)

\* a pending result that already carries a secret treated as approved
OnPendingLenient(resp) ==
    IF resp.secret.present
    THEN Return(resp.secret.value)
    ELSE Raise("RuntimeError", PendingMessage)

\* lines 30-31: raise RuntimeError("Secret request pending approval")
OnPending(resp) == Raise("RuntimeError", PendingMessage)

\* the reason left out of the message
OnOtherWithoutReason(resp) == Raise("RuntimeError", DeniedPrefix)

\* the secret of the result appended to the message
OnOtherLeakingSecret(resp) ==
    IF resp.reason.tag = "missing"
    THEN Raise("AttributeError", <<"r", "e", "a", "s", "o", "n">>)
    ELSE Raise("RuntimeError", DeniedPrefix \o Format(resp.reason) \o resp.secret.value)

\* lines 32-33: raise RuntimeError(f"Access denied: {result.reason}"); reading
\* result.reason comes first and fails when the result has no such attribute
OnOther(resp) ==
    IF resp.reason.tag = "missing"
    THEN Raise("AttributeError", <<"r", "e", "a", "s", "o", "n">>)
    ELSE Raise("RuntimeError", DeniedPrefix \o Format(resp.reason))

\* a secret returned once is kept and handed out again on every later call
RequestSecretCached(resp) ==
    IF rs_outcome.kind = "return" THEN rs_outcome
    ELSE IF resp.kind = "fault" THEN OnClientFault(resp)
    ELSE IF resp.status = "APPROVED" THEN OnApproved(resp)
    ELSE IF resp.status = "PENDING" THEN OnPending(resp)
    ELSE OnOther(resp)

\* lines 18-33: how request_secret ends, given what the client call at line 19 did
RequestSecretOutcome(resp) ==
    IF resp.kind = "fault" THEN OnClientFault(resp)
    ELSE IF resp.status = "APPROVED" THEN OnApproved(resp)
    ELSE IF resp.status = "PENDING" THEN OnPending(resp)
    ELSE OnOther(resp)

----------------------------------------------------------------------------
(* secure_action, lines 35-37 *)

\* a failed request answered with a placeholder instead of failing
SecureActionRecovering(rs) ==
    IF rs.kind = "return"
    THEN Return(ActionPrefix \o Slice(rs.text, MaskKeep) \o MaskMarker)
    ELSE Return(ActionPrefix \o MaskMarker)

\* lines 36-37: how secure_action ends, given how its request_secret call ended;
\* no try/except, so an exception of request_secret leaves secure_action as it is
SecureActionOutcome(rs) ==
    IF rs.kind = "return"
    THEN Return(ActionPrefix \o Slice(rs.text, MaskKeep) \o MaskMarker)
    ELSE rs

----------------------------------------------------------------------------
(* The state machine *)

Init ==
    /\ caller = "none"
    /\ resource_name = <<>>
    /\ outbound = <<>>
    /\ response = NoResponse
    /\ rs_outcome = NoOutcome
    /\ sa_outcome = NoOutcome
    /\ prev_outcome = NoOutcome

\* a direct call request_secret(name), answered by the client with resp
RequestSecret(name, resp) ==
    /\ caller' = "request_secret"
    /\ resource_name' = name
    /\ outbound' = ClientCalls(name, resp)
    /\ response' = resp
    /\ rs_outcome' = RequestSecretOutcome(resp)
    /\ sa_outcome' = NoOutcome
    /\ prev_outcome' = rs_outcome

\* a call secure_action() (the task's function), its client call answered with resp
SecureAction(resp) ==
    /\ caller' = "secure_action"
    /\ resource_name' = ExampleResource
    /\ outbound' = ClientCalls(ExampleResource, resp)
    /\ response' = resp
    /\ rs_outcome' = RequestSecretOutcome(resp)
    /\ sa_outcome' = SecureActionOutcome(RequestSecretOutcome(resp))
    /\ prev_outcome' = rs_outcome

CallRequestSecret == \E name \in ResourceNames, resp \in Responses : RequestSecret(name, resp)

CallSecureAction == \E resp \in Responses : SecureAction(resp)

Next == CallRequestSecret \/ CallSecureAction

Spec == Init /\ [][Next]_vars

----------------------------------------------------------------------------
(* Properties *)

Called == caller # "none"

GotResult == Called /\ response.kind = "result"

IsDeniedStatus == GotResult /\ response.status \notin {"APPROVED", "PENDING"}

\* the first Len(p) characters of t are p
StartsWith(t, p) == Len(t) >= Len(p) /\ SubSeq(t, 1, Len(p)) = p

\* C1: for every resource name and every result whose status is exactly "APPROVED",
\* request_secret returns the result's secret.value string unchanged and raises
\* nothing (the results the claim is about are those that have a secret.value).
C1_ApprovedReturnsSecretValue ==
    (GotResult /\ response.status = "APPROVED" /\ response.secret.present)
        => /\ rs_outcome.kind = "return"
           /\ rs_outcome.exc = ""
           /\ rs_outcome.text = response.secret.value

\* an approved secret longer than the masked prefix came back whole
C1_Witness ==
    /\ caller = "request_secret"
    /\ response.kind = "result" /\ response.status = "APPROVED"
    /\ Len(response.secret.value) > MaskKeep
    /\ rs_outcome.kind = "return"

\* C2: for every result whose status is "PENDING", request_secret raises
\* RuntimeError("Secret request pending approval") and returns nothing, whatever
\* the secret and reason fields of the result hold.
C2_PendingAlwaysFails ==
    (GotResult /\ response.status = "PENDING")
        => /\ rs_outcome.kind = "raise"
           /\ rs_outcome.exc = "RuntimeError"
           /\ rs_outcome.text = PendingMessage

\* a pending result that carries both a secret and a reason was refused
C2_Witness ==
    /\ GotResult /\ response.status = "PENDING"
    /\ response.secret.present /\ Len(response.secret.value) > 0
    /\ response.reason.tag = "str" /\ Len(response.reason.value) > 0
    /\ rs_outcome.kind = "raise"

\* C3 as stated: for every result whose status is neither "APPROVED" nor "PENDING",
\* with or without a reason, request_secret raises a RuntimeError whose message is
\* "Access denied: " followed by the reason string, and returns nothing.
C3_OtherStatusAlwaysDenied ==
    IsDeniedStatus
        => /\ rs_outcome.kind = "raise"
           /\ rs_outcome.exc = "RuntimeError"
           /\ StartsWith(rs_outcome.text, DeniedPrefix)
           /\ response.reason.tag = "str"
                => rs_outcome.text = DeniedPrefix \o response.reason.value

\* C3 amended: for every result whose status is neither "APPROVED" nor "PENDING",
\* request_secret returns nothing; it raises RuntimeError("Access denied: " + reason)
\* when the result carries a reason string, RuntimeError("Access denied: None") when
\* its reason is None, and AttributeError when the result has no reason attribute.
C3_OtherStatusDeniedByReason ==
    IsDeniedStatus
        => /\ rs_outcome.kind = "raise"
           /\ response.reason.tag = "str"
                => /\ rs_outcome.exc = "RuntimeError"
                   /\ rs_outcome.text = DeniedPrefix \o response.reason.value
           /\ response.reason.tag = "none"
                => /\ rs_outcome.exc = "RuntimeError"
                   /\ rs_outcome.text = DeniedPrefix \o NoneText
           /\ response.reason.tag = "missing"
                => rs_outcome.exc = "AttributeError"

\* a status the code does not name, with a reason, was refused with that reason
C3_Witness ==
    /\ GotResult /\ response.status = "EXPIRED"
    /\ response.reason.tag = "str" /\ Len(response.reason.value) > 0
    /\ rs_outcome.exc = "RuntimeError"
    /\ Len(rs_outcome.text) = Len(DeniedPrefix) + Len(response.reason.value)

\* the secret occurs whole in what the text shows after its literal head
ExposedInFull(text, secret) ==
    /\ Len(secret) > 0
    /\ StartsWith(text, ActionPrefix)
    /\ Contains(SubSeq(text, Len(ActionPrefix) + 1, Len(text)), secret)

\* C4: for every approved secret value of any length, secure_action returns
\* "Secure action executed with secret " + the first four characters + "***",
\* and the returned string never shows the secret in full.
C4_SecretNeverExposedInFull ==
    (/\ caller = "secure_action"
     /\ response.kind = "result" /\ response.status = "APPROVED"
     /\ response.secret.present)
        => /\ sa_outcome.kind = "return"
           /\ sa_outcome.text
                = ActionPrefix \o Slice(response.secret.value, MaskKeep) \o MaskMarker
           /\ ~ExposedInFull(sa_outcome.text, response.secret.value)

\* C5: secure_action does not recover: when its request_secret call raises, it
\* raises the same error and returns nothing; it returns only for "APPROVED".
C5_SecureActionPropagates ==
    caller = "secure_action"
        => /\ rs_outcome.kind = "raise" => sa_outcome = rs_outcome
           /\ sa_outcome.kind = "return"
                => (response.kind = "result" /\ response.status = "APPROVED")
           /\ sa_outcome.kind \in {"return", "raise"}

\* secure_action failed with the pending error of its request
C5_Witness ==
    /\ caller = "secure_action"
    /\ response.kind = "result" /\ response.status = "PENDING"
    /\ sa_outcome = Raise("RuntimeError", PendingMessage)

\* C6: one invocation of request_secret makes exactly one call to the external
\* client, whatever the status that comes back.
C6_OneOutboundCall == Called => Len(outbound) = 1

\* a pending answer was not followed by another call
C6_Witness ==
    /\ GotResult /\ response.status = "PENDING"
    /\ rs_outcome.kind = "raise"
    /\ Len(outbound) = 1

\* C7: when the client call itself raises, request_secret returns nothing and does
\* not turn the failure into the pending or denied error: the client's exception
\* reaches the caller unchanged, also through secure_action.
C7_ClientFaultPropagates ==
    (Called /\ response.kind = "fault")
        => /\ rs_outcome = Raise(response.fault.type, response.fault.message)
           /\ rs_outcome.exc # "RuntimeError"
           /\ caller = "secure_action" => sa_outcome = rs_outcome

\* secure_action failed with the client's own exception
C7_Witness ==
    /\ caller = "secure_action"
    /\ response.kind = "fault" /\ response.fault.type = "ConnectionError"
    /\ sa_outcome.kind = "raise" /\ sa_outcome.exc = "ConnectionError"

\* C8: the outbound call carries the resource name unchanged as resource_id and an
\* intent of exactly the fields task_id "crewai-task", summary "CrewAI agent
\* execution" and description "CrewAI agent needs <name>"; secure_action always
\* asks for "example_api_key".
C8_RequestShape ==
    Called
        => /\ Len(outbound) >= 1
           /\ \A i \in 1..Len(outbound) :
                /\ DOMAIN outbound[i] = {"resource_id", "intent"}
                /\ outbound[i].resource_id = resource_name
                /\ DOMAIN outbound[i].intent = {"task_id", "summary", "description"}
                /\ outbound[i].intent.task_id = "crewai-task"
                /\ outbound[i].intent.summary = "CrewAI agent execution"
                /\ outbound[i].intent.description = DescriptionPrefix \o resource_name
           /\ caller = "secure_action" => resource_name = ExampleResource

\* a direct call for another resource sent that resource's name
C8_Witness ==
    /\ caller = "request_secret"
    /\ resource_name = <<"d", "b">>
    /\ Len(outbound) = 1
    /\ outbound[1].resource_id = <<"d", "b">>

\* C9: request_secret keeps nothing between calls: after any earlier call, an
\* approved result returns its own (new) value even if the earlier call failed, and
\* a pending or denied result fails even if the earlier call returned a secret.
C9_NoStateBetweenCalls ==
    (GotResult /\ prev_outcome.kind # "none")
        => /\ (response.status = "APPROVED" /\ response.secret.present)
                => rs_outcome = Return(response.secret.value)
           /\ (response.status = "APPROVED" /\ ~response.secret.present)
                => (rs_outcome.kind = "raise" /\ rs_outcome.exc = "AttributeError")
           /\ response.status = "PENDING"
                => rs_outcome = Raise("RuntimeError", PendingMessage)
           /\ response.status \notin {"APPROVED", "PENDING"}
                => /\ rs_outcome.kind = "raise"
                   /\ rs_outcome.exc \in {"RuntimeError", "AttributeError"}
                   /\ rs_outcome.text # PendingMessage

\* a call that returned a secret was followed by a call that was denied
C9_Witness ==
    /\ prev_outcome.kind = "return" /\ Len(prev_outcome.text) > 0
    /\ GotResult /\ response.status = "DENIED"
    /\ rs_outcome.kind = "raise"

\* a call that failed as pending was followed by a call that returned the new value
C9_WitnessPendingThenApproved ==
    /\ prev_outcome = Raise("RuntimeError", PendingMessage)
    /\ GotResult /\ response.status = "APPROVED"
    /\ rs_outcome = Return(response.secret.value)

IsReturn == rs_outcome.kind = "return"

IsPendingError == rs_outcome = Raise("RuntimeError", PendingMessage)

IsDeniedError ==
    /\ rs_outcome.kind = "raise"
    /\ rs_outcome.exc = "RuntimeError"
    /\ StartsWith(rs_outcome.text, DeniedPrefix)

IsAttributeError == rs_outcome.kind = "raise" /\ rs_outcome.exc = "AttributeError"

\* the error messages are the literal, or the literal and the formatted reason
ErrorTextWithoutSecret ==
    /\ IsPendingError => rs_outcome.text = PendingMessage
    /\ IsDeniedError => rs_outcome.text = DeniedPrefix \o Format(response.reason)

\* C10 as stated: every invocation that receives a result ends in exactly one of
\* return, pending error, denied error, chosen by the status alone, and the error
\* messages are built without the secret field.
C10_ThreeOutcomes ==
    GotResult
        => /\ IsReturn <=> response.status = "APPROVED"
           /\ IsPendingError <=> response.status = "PENDING"
           /\ IsDeniedError <=> response.status \notin {"APPROVED", "PENDING"}
           /\ ErrorTextWithoutSecret

\* the branch of lines 28-33 reads a field the result does not have
LacksFieldRead ==
    \/ response.status = "APPROVED" /\ ~response.secret.present
    \/ response.status \notin {"APPROVED", "PENDING"} /\ response.reason.tag = "missing"

\* C10 amended: every invocation that receives a result ends in exactly one of four
\* outcomes: return, pending error, denied error, or AttributeError.  The status
\* alone picks the branch (APPROVED, PENDING, any other); the branch ends in
\* AttributeError exactly when the result lacks the field the branch reads (the
\* secret under APPROVED, the reason under any other status), and otherwise in
\* return, pending error and denied error respectively.  The secret is read only in
\* the approved branch: every error message is built from literals and the reason.
C10_OutcomesByStatus ==
    GotResult
        => /\ IsReturn <=> (response.status = "APPROVED" /\ response.secret.present)
           /\ IsReturn => rs_outcome.text = response.secret.value
           /\ IsPendingError <=> response.status = "PENDING"
           /\ IsDeniedError
                <=> (/\ response.status \notin {"APPROVED", "PENDING"}
                     /\ response.reason.tag # "missing")
           /\ IsAttributeError <=> LacksFieldRead
           /\ \A a, b \in {<<1, IsReturn>>, <<2, IsPendingError>>,
                            <<3, IsDeniedError>>, <<4, IsAttributeError>>} :
                (a[2] /\ b[2]) => a[1] = b[1]
           /\ IsReturn \/ IsPendingError \/ IsDeniedError \/ IsAttributeError
           /\ ErrorTextWithoutSecret

\* a denied result that carries a secret ended in the denied error
C10_Witness ==
    /\ GotResult /\ response.status = "DENIED"
    /\ response.secret.present /\ Len(response.secret.value) > 0
    /\ response.reason.tag = "str"
    /\ IsDeniedError

====
